---- MODULE Spec2Model ----
(***************************************************************************)
(* Model of src/models/price_predictor/train.py: the synthetic data        *)
(* generator, the two-layer classifier (PricePredictor), the training loop *)
(* train() and the weight export.                                          *)
(*                                                                         *)
(* Numbers.  The program computes in IEEE doubles.  The model computes in  *)
(* fixed point: a real r is the integer r * Fix, every product and         *)
(* quotient is rounded (downwards) to a multiple of 1/Fix, and nan is the  *)
(* value NaN, which every arithmetic operation propagates.  exp and log,   *)
(* which numpy supplies, are rational approximations (ExpFix, LogFix).     *)
(* Random draws (numpy's np.random) are choices from small sets.           *)
(***************************************************************************)
EXTENDS Integers, Sequences, FiniteSets, TLC

\* ------------------------------------------------------------------ bounds
\* n_samples ranges over 0..MaxSamples (generator) and 1..MaxSamples (train).
MaxSamples == 3
\* epochs ranges over 1..MaxEpochs.
MaxEpochs == 11

\* ------------------------------------------------------- fixed-point reals
Fix == 10 ^ 3
NaN == -(2 ^ 30)

Real(n) == n * Fix

FAdd(a, b) == IF a = NaN \/ b = NaN THEN NaN ELSE a + b
FSub(a, b) == IF a = NaN \/ b = NaN THEN NaN ELSE a - b
FMul(a, b) == IF a = NaN \/ b = NaN THEN NaN ELSE (a * b) \div Fix
\* a / b.  The only zero divisor the program meets is the batch size of an
\* empty batch, whose numerators are sums over no row, so 0 / 0 = nan.
FDiv(a, b) == IF a = NaN \/ b = NaN \/ b = 0 THEN NaN ELSE (a * Fix) \div b
\* a > b and a < b on floats: False when either is nan.
Gt(a, b) == a # NaN /\ b # NaN /\ a > b
Lt(a, b) == a # NaN /\ b # NaN /\ a < b
\* Python's builtin max(a, b) and min(a, b) on two floats.
PyMax(a, b) == IF Gt(b, a) THEN b ELSE a
PyMin(a, b) == IF Lt(b, a) THEN b ELSE a

RECURSIVE SumSeq(_)
SumSeq(s) == IF s = <<>> THEN 0 ELSE FAdd(Head(s), SumSeq(Tail(s)))

\* Largest r with r * r <= n.
ISqrt(n) == CHOOSE r \in 0..(2 * Fix) : r * r <= n /\ (r + 1) * (r + 1) > n
\* sqrt of a fixed-point real, as a fixed-point real.
FSqrt(a) == ISqrt(a * Fix)

\* --------------------------------------------------------------- variables
VARIABLES
    pc,             \* position in train() / generate_training_data()
    epochs, n_samples, learning_rate,   \* the arguments
    X, y,           \* the dataset under construction / returned
    prices_log,     \* history: per sample, the prices list of its iteration
    split, X_train, X_test, y_train, y_test,
    model,          \* the PricePredictor object's fields
    epoch,          \* loop variable of the training loop
    indices, X_shuffled, y_shuffled,
    y_pred, loss, acc,
    test_pred, test_acc,
    file,           \* contents written to weights.json, oldest first
    i, idx, pred,   \* the sample-prediction loop
    last_call,      \* history: the model method called last
    forward_x,      \* history: the argument of the latest forward call
    n_backward,     \* history: number of backward calls so far
    client_calls    \* position of a caller of the class: calls made so far

args == <<epochs, n_samples, learning_rate>>
data == <<X, y, prices_log>>
parts == <<split, X_train, X_test, y_train, y_test>>
batch == <<indices, X_shuffled, y_shuffled>>
metrics == <<y_pred, loss, acc>>
evals == <<test_pred, test_acc>>
tail == <<i, idx, pred>>
hist == <<last_call, forward_x, n_backward>>

vars == <<pc, args, data, parts, model, epoch, batch, metrics, evals, file,
          tail, hist, client_calls>>

\* ---------------------------------------------------------- data generator
base_price == Real(100)
\* np.random.choice([-1, 0, 1], p=[0.3, 0.4, 0.3])
Trends == {-1, 0, 1}
\* One (np.random.uniform(0.5, 2.0), np.random.normal(0, 1.5)) pair per
\* price step, in units of 1/Fix; a profile is the four pairs of one sample.
\* numpy's draws are bounded, so no price reaches 0.
Quiet == << <<500, 0>>, <<500, 0>>, <<500, 0>>, <<500, 0>> >>
EdgeUp == << <<500, 0>>, <<500, 0>>, <<500, 0>>, <<500, -500>> >>
EdgeDown == << <<500, 0>>, <<500, 0>>, <<500, 0>>, <<500, 500>> >>
JustOver == << <<500, 0>>, <<500, 0>>, <<500, 0>>, <<600, -400>> >>
Spike == << <<1500, 6000>>, <<1500, -6000>>, <<500, 0>>, <<1900, 100>> >>
NoiseProfiles == {Quiet, EdgeUp, EdgeDown, JustOver, Spike}
TrainProfiles == {Quiet}
\* The draws train() is explored on: rising and falling samples.
TrainTrends == {-1, 1}

\* prices after the inner loop: prices[k+1] = prices[k] + change.
RECURSIVE Prices(_, _, _)
Prices(trend, draws, k) ==
    IF k = 0 THEN <<base_price>>
    ELSE LET prev == Prices(trend, draws, k - 1)
             change == FAdd(trend * draws[k][1], draws[k][2])
         IN  Append(prev, FAdd(prev[Len(prev)], change))

\* (prices[i+1] - prices[i]) / prices[i] * 100
PctDelta(prices, k) ==
    FMul(FDiv(FSub(prices[k + 1], prices[k]), prices[k]), Real(100))

ClampDivisor == Real(5)

\* Normalize without the clamp.
NormalizeUnclamped(d) == FDiv(d, ClampDivisor)

\* min(max(d / 5.0, -1), 1)
Normalize(d) == PyMin(PyMax(FDiv(d, ClampDivisor), Real(-1)), Real(1))

Deltas(prices) == [k \in 1..4 |-> Normalize(PctDelta(prices, k))]

\* (prices[-1] - prices[0]) / prices[0] * 100
TotalChange(prices) ==
    FMul(FDiv(FSub(prices[Len(prices)], prices[1]), prices[1]), Real(100))

LabelThreshold == (3 * Fix) \div 2

\* Label with the two comparisons made inclusive.
LabelInclusive(total_change) ==
    IF ~Lt(total_change, LabelThreshold) THEN <<1, 0, 0>>
    ELSE IF ~Gt(total_change, -LabelThreshold) THEN <<0, 1, 0>>
    ELSE <<0, 0, 1>>

Label(total_change) ==
    IF Gt(total_change, LabelThreshold) THEN <<1, 0, 0>>
    ELSE IF Lt(total_change, -LabelThreshold) THEN <<0, 1, 0>>
    ELSE <<0, 0, 1>>

\* One iteration of the loop of generate_training_data.
GenerateSample(trend, draws) ==
    /\ pc = "generate"
    /\ Len(X) < n_samples
    /\ LET prices == Prices(trend, draws, 4)
       IN  /\ X' = Append(X, Deltas(prices))
           /\ y' = Append(y, Label(TotalChange(prices)))
           /\ prices_log' = Append(prices_log, prices)
    /\ UNCHANGED <<pc, args, parts, model, epoch, batch, metrics, evals,
                   file, tail, hist, client_calls>>

\* The loop is over: return np.array(X), np.array(y).
GenerateReturn ==
    /\ pc = "generate"
    /\ Len(X) = n_samples
    /\ pc' = "generated"
    /\ UNCHANGED <<args, data, parts, model, epoch, batch, metrics, evals,
                   file, tail, hist, client_calls>>

NoModel == [input_size |-> 0, hidden_size |-> 0, output_size |-> 0,
            W1 |-> <<>>, b1 |-> <<>>, W2 |-> <<>>, b2 |-> <<>>,
            z1 |-> <<>>, a1 |-> <<>>, z2 |-> <<>>, a2 |-> <<>>]

Blank ==
    /\ epochs = 0 /\ learning_rate = 0
    /\ X = <<>> /\ y = <<>> /\ prices_log = <<>>
    /\ split = 0
    /\ X_train = <<>> /\ X_test = <<>> /\ y_train = <<>> /\ y_test = <<>>
    /\ model = NoModel
    /\ epoch = 0
    /\ indices = <<>> /\ X_shuffled = <<>> /\ y_shuffled = <<>>
    /\ y_pred = <<>> /\ loss = 0 /\ acc = 0
    /\ test_pred = <<>> /\ test_acc = 0
    /\ file = <<>>
    /\ i = 0 /\ idx = 0 /\ pred = <<>>
    /\ last_call = "none" /\ forward_x = <<>> /\ n_backward = 0
    /\ client_calls = 0

\* ---------------------------------------------------------- PricePredictor
\* Matrices are sequences of rows.  A batch of no row is <<>>.
input_size == 4
hidden_size == 16
output_size == 3

\* np.random.randn: the draw for entry (r, c) of a matrix under the outcome
\* `seed` of the generator; multiples of 0.1 in [-2.0, 2.0].
Seeds == {1}
Randn(seed, r, c) == (((r * 37 + c * 101 + seed * 53) % 41) - 20) * (Fix \div 10)

\* np.sqrt(2.0 / fan_in)
W1Scale == FSqrt(FDiv(Real(2), Real(input_size)))
W2Scale == FSqrt(FDiv(Real(2), Real(hidden_size)))

\* PricePredictor.__init__
NewModel(seed) ==
    [input_size |-> input_size, hidden_size |-> hidden_size,
     output_size |-> output_size,
     W1 |-> [r \in 1..input_size |->
                [c \in 1..hidden_size |-> FMul(Randn(seed, r, c), W1Scale)]],
     b1 |-> [c \in 1..hidden_size |-> 0],
     W2 |-> [r \in 1..hidden_size |->
                [c \in 1..output_size |-> FMul(Randn(seed + 7, r, c), W2Scale)]],
     b2 |-> [c \in 1..output_size |-> 0],
     z1 |-> <<>>, a1 |-> <<>>, z2 |-> <<>>, a2 |-> <<>>]

\* The array with the entries f[1], ..., f[Len(f)], each computed once.
Arr(f) == SubSeq(f, 1, Len(f))

Params(m) == <<m.W1, m.b1, m.W2, m.b2>>

\* np.dot(x, W) + b for a batch x
Affine(x, W, b) ==
    Arr([r \in 1..Len(x) |->
        Arr([c \in 1..Len(b) |->
            FAdd(SumSeq([k \in 1..Len(W) |-> FMul(x[r][k], W[k][c])]), b[c])])])

\* np.maximum(0, v), elementwise; nan propagates
relu(v) == IF v = NaN THEN NaN ELSE IF Gt(v, 0) THEN v ELSE 0
\* (v > 0).astype(float); nan > 0 is False
relu_derivative(v) == IF Gt(v, 0) THEN Real(1) ELSE 0

\* np.max of a row; nan if any entry is nan
RowMax(row) ==
    IF \E c \in 1..Len(row) : row[c] = NaN THEN NaN
    ELSE CHOOSE v \in {row[c] : c \in 1..Len(row)} :
             \A c \in 1..Len(row) : row[c] <= v

\* np.exp(t) for t <= 0, to 1/Fix: the Pade form 1 / (1 - t + t^2/2), and 0
\* below -20.
ExpFix(t) ==
    IF t = NaN THEN NaN
    ELSE IF t < -Real(20) THEN 0
    ELSE (Fix * Fix) \div (Fix - t + (t * t) \div (2 * Fix))

softmax(row) ==
    LET mx == RowMax(row)
        exp_x == Arr([c \in 1..Len(row) |-> ExpFix(FSub(row[c], mx))])
        total == SumSeq(exp_x)
    IN  Arr([c \in 1..Len(row) |-> FDiv(exp_x[c], total)])

\* The four activations forward(x) computes.
Activations(m, x) ==
    LET z1 == Affine(x, m.W1, m.b1)
        a1 == Arr([r \in 1..Len(x) |->
                    Arr([c \in 1..Len(m.b1) |-> relu(z1[r][c])])])
        z2 == Affine(a1, m.W2, m.b2)
        a2 == Arr([r \in 1..Len(x) |-> softmax(z2[r])])
    IN  [z1 |-> z1, a1 |-> a1, z2 |-> z2, a2 |-> a2]

\* forward that also clips W1 to [-1, 1] in place.
forward_clipping(m, x) ==
    LET act == Activations(m, x)
    IN  [m EXCEPT !.z1 = act.z1, !.a1 = act.a1, !.z2 = act.z2, !.a2 = act.a2,
                  !.W1 = [k \in 1..Len(m.W1) |-> [h \in 1..Len(m.b1) |->
                            PyMin(PyMax(m.W1[k][h], Real(-1)), Real(1))]]]

\* forward(x): the object after the call; the return value is its a2.
forward(m, x) ==
    LET act == Activations(m, x)
    IN  [m EXCEPT !.z1 = act.z1, !.a1 = act.a1, !.z2 = act.z2, !.a2 = act.a2]

\* a / m for the batch size m, an integer
DivCount(a, m) == IF a = NaN \/ m = 0 THEN NaN ELSE a \div m

\* backward(x, y, learning_rate): the object after the call.
backward(m, x, yy, lr) ==
    LET mm == Len(x)
        H == 1..Len(m.b1)
        O == 1..Len(m.b2)
        I == 1..Len(m.W1)
        R == 1..mm
        dz2 == Arr([r \in R |->
                    Arr([c \in O |-> FSub(m.a2[r][c], Real(yy[r][c]))])])
        dW2 == [h \in H |-> [c \in O |->
                  DivCount(SumSeq([r \in R |-> FMul(m.a1[r][h], dz2[r][c])]), mm)]]
        db2 == [c \in O |-> DivCount(SumSeq([r \in R |-> dz2[r][c]]), mm)]
        da1 == [r \in R |-> [h \in H |->
                  SumSeq([c \in O |-> FMul(dz2[r][c], m.W2[h][c])])]]
        dz1 == Arr([r \in R |-> Arr([h \in H |->
                  FMul(da1[r][h], relu_derivative(m.z1[r][h]))])])
        dW1 == [k \in I |-> [h \in H |->
                  DivCount(SumSeq([r \in R |-> FMul(x[r][k], dz1[r][h])]), mm)]]
        db1 == [h \in H |-> DivCount(SumSeq([r \in R |-> dz1[r][h]]), mm)]
    IN  [m EXCEPT
           !.W2 = [h \in H |-> [c \in O |-> FSub(m.W2[h][c], FMul(lr, dW2[h][c]))]],
           !.b2 = [c \in O |-> FSub(m.b2[c], FMul(lr, db2[c]))],
           !.W1 = [k \in I |-> [h \in H |-> FSub(m.W1[k][h], FMul(lr, dW1[k][h]))]],
           !.b1 = [h \in H |-> FSub(m.b1[h], FMul(lr, db1[h]))]]

\* epsilon = 1e-15 is below the resolution 1/Fix: the smallest positive value.
Epsilon == 1
\* np.clip(p, epsilon, 1 - epsilon); nan stays nan
Clip(p) ==
    IF p = NaN THEN NaN
    ELSE IF p < Epsilon THEN Epsilon
    ELSE IF p > Fix - Epsilon THEN Fix - Epsilon ELSE p
\* np.log(p) for 0 < p < 1, to 1/Fix: the Pade form 2 (p - 1) / (p + 1).
LogFix(p) == IF p = NaN THEN NaN ELSE FDiv(2 * (p - Fix), p + Fix)

\* np.mean of a vector; nan for the empty vector
Mean(v) == DivCount(SumSeq(v), Len(v))

compute_loss(yp, yt) ==
    LET per == [r \in 1..Len(yp) |->
                  SumSeq([c \in 1..Len(yp[r]) |->
                            FMul(Real(yt[r][c]), LogFix(Clip(yp[r][c])))])]
        mean == Mean(per)
    IN  IF mean = NaN THEN NaN ELSE -mean

\* np.argmax of a row: the first index (from 0) of the maximum; a nan counts
\* as the maximum.
ArgMax(row) ==
    LET mx == RowMax(row)
    IN  (CHOOSE c \in 1..Len(row) :
            /\ row[c] = mx
            /\ \A d \in 1..(c - 1) : row[d] # mx) - 1

accuracy(yp, yt) ==
    Mean([r \in 1..Len(yp) |->
            IF ArgMax(yp[r]) = ArgMax(yt[r]) THEN Real(1) ELSE 0])

\* The label names in alphabetical order.
LabelsSorted == <<"DOWN", "SIDEWAYS", "UP">>

Labels == <<"UP", "DOWN", "SIDEWAYS">>

\* ExportContent with a field that counts the exports so far.
ExportContentStamped(m) ==
    [model |-> "price-predictor",
     version |-> "1.0.0",
     architecture |-> [input_size |-> m.input_size,
                       hidden_size |-> m.hidden_size,
                       output_size |-> m.output_size,
                       activation |-> "relu",
                       output_activation |-> "softmax"],
     weights |-> [W1 |-> m.W1, b1 |-> m.b1, W2 |-> m.W2, b2 |-> m.b2],
     labels |-> <<"UP", "DOWN", "SIDEWAYS">>,
     exported |-> Len(file)]

\* The dict export_weights hands to json.dump.
ExportContent(m) ==
    [model |-> "price-predictor",
     version |-> "1.0.0",
     architecture |-> [input_size |-> m.input_size,
                       hidden_size |-> m.hidden_size,
                       output_size |-> m.output_size,
                       activation |-> "relu",
                       output_activation |-> "softmax"],
     weights |-> [W1 |-> m.W1, b1 |-> m.b1, W2 |-> m.W2, b2 |-> m.b2],
     labels |-> Labels]

\* export_weights(filepath): the file after open(filepath, 'w') and json.dump;
\* f is the file's history of contents.
export_weights(m, f) == Append(f, ExportContent(m))

\* -------------------------------------------------------------------- train
\* learning_rate: 0.01, the default
LearningRates == {Fix \div 100}

\* The call train(epochs, n_samples, learning_rate), up to the call of
\* generate_training_data.
TrainStart ==
    /\ pc = "start"
    /\ epochs' \in 1..MaxEpochs
    /\ n_samples' \in 1..MaxSamples
    /\ learning_rate' \in LearningRates
    /\ pc' = "generate"
    /\ UNCHANGED <<data, parts, model, epoch, batch, metrics, evals, file,
                   tail, hist, client_calls>>

SplitRatio == (8 * Fix) \div 10
\* round(0.8 * n) in place of int(0.8 * n).
SplitPointRounded(n) == (FMul(SplitRatio, Real(n)) + Fix \div 2) \div Fix

\* int(0.8 * n)
SplitPoint(n) == FMul(SplitRatio, Real(n)) \div Fix

\* X[:split], y[:split]
TrainPart(s, k) == SubSeq(s, 1, k)
\* X[split:], y[split:]
TestPart(s, k) == SubSeq(s, k + 1, Len(s))

\* Split into train/test.
Split ==
    /\ pc = "generated"
    /\ split' = SplitPoint(Len(X))
    /\ X_train' = TrainPart(X, split') /\ X_test' = TestPart(X, split')
    /\ y_train' = TrainPart(y, split') /\ y_test' = TestPart(y, split')
    /\ pc' = "init_model"
    /\ UNCHANGED <<args, data, model, epoch, batch, metrics, evals, file,
                   tail, hist, client_calls>>

\* model = PricePredictor(input_size=4, hidden_size=16, output_size=3)
InitModel ==
    /\ pc = "init_model"
    /\ \E seed \in Seeds : model' = NewModel(seed)
    /\ epoch' = 0
    /\ pc' = "loop"
    /\ UNCHANGED <<args, data, parts, batch, metrics, evals, file, tail, hist, client_calls>>

\* The loop running one iteration too many.
LoopContinuesInclusive(e, n) == e <= n

\* for epoch in range(epochs): whether iteration e (from 0) runs
LoopContinues(e, n) == e < n

\* a[indices] for an array a and an index array (indices count from 0)
Take(a, ind) == [k \in 1..Len(ind) |-> a[ind[k] + 1]]
ShuffledX(ind) == Take(X_train, ind)
\* y_shuffled left in the order of y_train.
ShuffledYUnpermuted(ind) == y_train

ShuffledY(ind) == Take(y_train, ind)

\* Shuffle training data: np.random.permutation(len(X_train)).
Shuffle ==
    /\ pc = "loop"
    /\ LoopContinues(epoch, epochs)
    /\ \E p \in Permutations(1..Len(X_train)) :
          indices' = [k \in 1..Len(X_train) |-> p[k] - 1]
    /\ X_shuffled' = ShuffledX(indices')
    /\ y_shuffled' = ShuffledY(indices')
    /\ pc' = "forward"
    /\ UNCHANGED <<args, data, parts, model, epoch, metrics, evals, file,
                   tail, hist, client_calls>>

\* The forward pass run on X_train in place of X_shuffled.
ForwardTrainUnshuffled ==
    /\ pc = "forward"
    /\ model' = forward(model, X_train)
    /\ y_pred' = model'.a2
    /\ last_call' = "forward" /\ forward_x' = X_train
    /\ pc' = "metrics"
    /\ UNCHANGED <<args, data, parts, epoch, batch, loss, acc, evals, file,
                   tail, n_backward, client_calls>>

\* y_pred = model.forward(X_shuffled)
ForwardTrain ==
    /\ pc = "forward"
    /\ model' = forward(model, X_shuffled)
    /\ y_pred' = model'.a2
    /\ last_call' = "forward" /\ forward_x' = X_shuffled
    /\ pc' = "metrics"
    /\ UNCHANGED <<args, data, parts, epoch, batch, loss, acc, evals, file,
                   tail, n_backward, client_calls>>

\* loss = model.compute_loss(...); acc = model.accuracy(...)
Metrics ==
    /\ pc = "metrics"
    /\ loss' = compute_loss(y_pred, y_shuffled)
    /\ acc' = accuracy(y_pred, y_shuffled)
    /\ last_call' = "accuracy"
    /\ pc' = "backward"
    /\ UNCHANGED <<args, data, parts, model, epoch, batch, y_pred, evals,
                   file, tail, forward_x, n_backward, client_calls>>

\* model.backward(X_shuffled, y_shuffled, learning_rate)
Backward ==
    /\ pc = "backward"
    /\ model' = backward(model, X_shuffled, y_shuffled, learning_rate)
    /\ last_call' = "backward" /\ n_backward' = n_backward + 1
    /\ pc' = "progress"
    /\ UNCHANGED <<args, data, parts, epoch, batch, metrics, evals, file,
                   tail, forward_x, client_calls>>

ProgressEvery == 10
\* if (epoch + 1) % 10 == 0
ProgressDue(e) == (e + 1) % ProgressEvery = 0

\* Print progress: the test accuracy, then the next iteration.
EvalProgress ==
    /\ pc = "progress"
    /\ ProgressDue(epoch)
    /\ model' = forward(model, X_test)
    /\ test_pred' = model'.a2
    /\ test_acc' = accuracy(test_pred', y_test)
    /\ last_call' = "accuracy" /\ forward_x' = X_test
    /\ epoch' = epoch + 1
    /\ pc' = "loop"
    /\ UNCHANGED <<args, data, parts, batch, metrics, file, tail, n_backward, client_calls>>

\* No progress line this epoch: the next iteration.
SkipProgress ==
    /\ pc = "progress"
    /\ ~ProgressDue(epoch)
    /\ epoch' = epoch + 1
    /\ pc' = "loop"
    /\ UNCHANGED <<args, data, parts, model, batch, metrics, evals, file,
                   tail, hist, client_calls>>

\* Final evaluation, after the loop.
FinalEval ==
    /\ pc = "loop"
    /\ ~LoopContinues(epoch, epochs)
    /\ model' = forward(model, X_test)
    /\ test_pred' = model'.a2
    /\ test_acc' = accuracy(test_pred', y_test)
    /\ last_call' = "accuracy" /\ forward_x' = X_test
    /\ pc' = "export"
    /\ UNCHANGED <<args, data, parts, epoch, batch, metrics, file, tail,
                   n_backward, client_calls>>

\* model.export_weights(weights_path): open(filepath, 'w'), json.dump.
ExportWeights ==
    /\ pc = "export"
    /\ file' = export_weights(model, file)
    /\ last_call' = "export_weights"
    /\ i' = 0
    /\ pc' = "samples"
    /\ UNCHANGED <<args, data, parts, model, epoch, batch, metrics, evals,
                   idx, pred, forward_x, n_backward, client_calls>>

SamplePredictions == 5

\* One iteration of the sample-prediction loop.
SamplePrediction ==
    /\ pc = "samples"
    /\ i < SamplePredictions
    /\ idx' \in 0..(Len(X_test) - 1)
    /\ model' = forward(model, SubSeq(X_test, idx' + 1, idx' + 1))
    /\ pred' = model'.a2[1]
    /\ last_call' = "forward"
    /\ forward_x' = SubSeq(X_test, idx' + 1, idx' + 1)
    /\ i' = i + 1
    /\ UNCHANGED <<pc, args, data, parts, epoch, batch, metrics, evals, file,
                   n_backward, client_calls>>

\* return model
Return ==
    /\ pc = "samples"
    /\ ~(i < SamplePredictions)
    /\ pc' = "done"
    /\ UNCHANGED <<args, data, parts, model, epoch, batch, metrics, evals,
                   file, tail, hist, client_calls>>

\* ------------------------------------------------- a caller of the class
\* A program that uses the module as a library: it generates a dataset,
\* constructs a PricePredictor and calls its methods in any order that meets
\* backward's precondition (a forward call on the same batch came before).
MaxCalls == 4

ClientNew ==
    /\ pc = "generated"
    /\ \E seed \in Seeds : model' = NewModel(seed)
    /\ learning_rate' \in LearningRates
    /\ pc' = "client"
    /\ UNCHANGED <<epochs, n_samples, data, parts, epoch, batch, metrics,
                   evals, file, tail, hist, client_calls>>

ClientForward ==
    /\ pc = "client"
    /\ client_calls < MaxCalls
    /\ model' = forward(model, X)
    /\ y_pred' = model'.a2
    /\ last_call' = "forward" /\ forward_x' = X
    /\ client_calls' = client_calls + 1
    /\ UNCHANGED <<pc, args, data, parts, epoch, batch, loss, acc, evals,
                   file, tail, n_backward>>

ClientBackward ==
    /\ pc = "client"
    /\ client_calls < MaxCalls
    /\ model.a2 # <<>> /\ forward_x = X
    /\ model' = backward(model, X, y, learning_rate)
    /\ last_call' = "backward" /\ n_backward' = n_backward + 1
    /\ client_calls' = client_calls + 1
    /\ UNCHANGED <<pc, args, data, parts, epoch, batch, metrics, evals, file,
                   tail, forward_x>>

ClientExport ==
    /\ pc = "client"
    /\ client_calls < MaxCalls
    /\ file' = export_weights(model, file)
    /\ last_call' = "export_weights"
    /\ client_calls' = client_calls + 1
    /\ UNCHANGED <<pc, args, data, parts, model, epoch, batch, metrics,
                   evals, tail, forward_x, n_backward>>

\* generate_training_data(n_samples) called on its own.
InitGen ==
    /\ pc = "generate"
    /\ n_samples \in 0..MaxSamples
    /\ Blank

NextGen ==
    \/ \E trend \in Trends, draws \in NoiseProfiles : GenerateSample(trend, draws)
    \/ GenerateReturn

SpecGen == InitGen /\ [][NextGen]_vars

\* Before train(epochs, n_samples, learning_rate) is called.
Init ==
    /\ pc = "start"
    /\ n_samples = 0
    /\ Blank

Next ==
    \/ TrainStart
    \/ \E trend \in TrainTrends, draws \in TrainProfiles : GenerateSample(trend, draws)
    \/ GenerateReturn
    \/ Split
    \/ InitModel
    \/ Shuffle
    \/ ForwardTrain
    \/ Metrics
    \/ Backward
    \/ EvalProgress
    \/ SkipProgress
    \/ FinalEval
    \/ ExportWeights
    \/ SamplePrediction
    \/ Return

Spec == Init /\ [][Next]_vars

InitClient ==
    /\ pc = "generate"
    /\ n_samples \in 1..MaxSamples
    /\ Blank

NextClient ==
    \/ \E trend \in Trends, draws \in TrainProfiles : GenerateSample(trend, draws)
    \/ GenerateReturn
    \/ ClientNew
    \/ ClientForward
    \/ ClientBackward
    \/ ClientExport

SpecClient == InitClient /\ [][NextClient]_vars

\* -------------------------------------------------------------- properties
OneHot(v) ==
    /\ Len(v) = 3
    /\ \A c \in 1..3 : v[c] \in {0, 1}
    /\ Cardinality({c \in 1..3 : v[c] = 1}) = 1

\* C1: in generate_training_data every sample's label is decided by its
\* total_change alone: [1,0,0] exactly when total_change > 1.5, [0,1,0]
\* exactly when total_change < -1.5, [0,0,1] otherwise; so 1.5 and -1.5 and
\* 0.0 give SIDEWAYS, 2.0 gives UP and -2.0 gives DOWN.
C1_LabelByTotalChange ==
    \A k \in 1..Len(y) :
        LET tc == TotalChange(prices_log[k])
        IN  /\ (y[k] = <<1, 0, 0>>) <=> (2 * tc > 3 * Fix)
            /\ (y[k] = <<0, 1, 0>>) <=> (2 * tc < -3 * Fix)
            /\ (y[k] = <<0, 0, 1>>) <=> (2 * tc <= 3 * Fix /\ 2 * tc >= -3 * Fix)
            /\ (2 * tc = 3 * Fix \/ 2 * tc = -3 * Fix \/ tc = 0) => y[k] = <<0, 0, 1>>
            /\ tc = 2 * Fix => y[k] = <<1, 0, 0>>
            /\ tc = -2 * Fix => y[k] = <<0, 1, 0>>

\* A returned dataset holding a sample at exactly 1.5, one at exactly -1.5
\* and one at exactly 2.0.
C1_Witness ==
    /\ pc = "generated"
    /\ \E a, b, c \in 1..Len(y) :
          /\ 2 * TotalChange(prices_log[a]) = 3 * Fix /\ y[a] = <<0, 0, 1>>
          /\ 2 * TotalChange(prices_log[b]) = -3 * Fix /\ y[b] = <<0, 0, 1>>
          /\ TotalChange(prices_log[c]) = 2 * Fix /\ y[c] = <<1, 0, 0>>

\* C3: every sample of generate_training_data(n) has exactly 4 features, each
\* in [-1, 1], and a one-hot label of length 3; features and labels are
\* index-aligned (row k of both comes from the same prices) and, on return,
\* both have length n.
C3_SampleShape ==
    /\ Len(X) = Len(y)
    /\ Len(X) <= n_samples
    /\ pc = "generated" => Len(X) = n_samples
    /\ \A k \in 1..Len(X) :
          /\ Len(X[k]) = 4
          /\ \A f \in 1..4 : X[k][f] >= -Fix /\ X[k][f] <= Fix
          /\ OneHot(y[k])
          /\ \A f \in 1..4 :
                LET raw == PctDelta(prices_log[k], f)
                IN  /\ raw > 5 * Fix => X[k][f] = Fix
                    /\ raw < -5 * Fix => X[k][f] = -Fix
          /\ y[k] = Label(TotalChange(prices_log[k]))

\* A returned dataset of MaxSamples samples with a feature saturated at 1 and
\* one saturated at -1.
C3_Witness ==
    /\ pc = "generated"
    /\ Len(X) >= 3
    /\ \E k \in 1..Len(X), f, g \in 1..4 :
          /\ PctDelta(prices_log[k], f) > 5 * Fix /\ X[k][f] = Fix
          /\ PctDelta(prices_log[k], g) < -5 * Fix /\ X[k][g] = -Fix

\* Whether train() has made the split.
AfterSplit == pc \notin {"start", "generate", "generated"}
\* Whether the locals of an epoch (indices, X_shuffled, y_shuffled) are set.
ShuffleDone ==
    \/ pc \in {"forward", "metrics", "backward", "progress"}
    \/ pc \in {"loop", "export", "samples", "done"} /\ epoch >= 1

\* C2: in train the training subset is the first floor(0.8 n) samples in
\* generation order and the evaluation subset is the rest in generation
\* order (disjoint, covering the dataset); the dataset is not reordered
\* before the split and the subsets are never reordered afterwards.
C2_SplitPartition ==
    AfterSplit =>
        /\ Len(X) = n_samples /\ Len(y) = n_samples
        /\ split = (4 * n_samples) \div 5
        /\ Len(X_train) = split /\ Len(y_train) = split
        /\ Len(X_test) = n_samples - split /\ Len(y_test) = n_samples - split
        /\ \A k \in 1..n_samples :
              /\ X[k] = Deltas(prices_log[k])
              /\ y[k] = Label(TotalChange(prices_log[k]))
              /\ k <= split => X_train[k] = X[k] /\ y_train[k] = y[k]
              /\ k > split => X_test[k - split] = X[k] /\ y_test[k - split] = y[k]

\* train() has returned after shuffling its two distinct training samples
\* into the other order.
C2_Witness ==
    /\ pc = "done"
    /\ n_samples = 3 /\ split = 2
    /\ indices = <<1, 0>>
    /\ X_train[1] # X_train[2]

\* C4: the exported labels list is ["UP","DOWN","SIDEWAYS"], and the class
\* index the generator sets to 1 is the index of the sample's regime in that
\* list: UP for a rising sample, DOWN for a falling one, SIDEWAYS for a flat
\* one.
C4_LabelOrder ==
    \A e \in 1..Len(file) :
        /\ file[e].labels = <<"UP", "DOWN", "SIDEWAYS">>
        /\ \A k \in 1..Len(y) :
              LET tc == TotalChange(prices_log[k])
                  name == file[e].labels[ArgMax(y[k]) + 1]
              IN  /\ 2 * tc > 3 * Fix => name = "UP"
                  /\ 2 * tc < -3 * Fix => name = "DOWN"
                  /\ (2 * tc <= 3 * Fix /\ 2 * tc >= -3 * Fix) => name = "SIDEWAYS"

\* An export made for a dataset with a rising, a falling and a flat sample.
C4_Witness ==
    /\ Len(file) >= 1
    /\ \E a, b, c \in 1..Len(y) :
          /\ 2 * TotalChange(prices_log[a]) > 3 * Fix
          /\ 2 * TotalChange(prices_log[b]) < -3 * Fix
          /\ TotalChange(prices_log[c]) = 0

\* C5: export_weights leaves the model's parameters and sizes as they are,
\* and two exports with no call between them write identical content.
C5_ExportIdempotent ==
    [][Len(file') = Len(file) + 1 =>
          /\ model' = model
          /\ (last_call = "export_weights" /\ Len(file) >= 1) =>
                file'[Len(file')] = file[Len(file)]]_vars

\* Two exports in a row of a model that a backward call has updated.
C5_Witness ==
    /\ Len(file) >= 2
    /\ file[Len(file)] = file[Len(file) - 1]
    /\ n_backward >= 1
    /\ file[Len(file)].weights.W1 # NewModel(1).W1

\* C6: every backward call of train comes after a forward call on the same
\* shuffled batch with no other forward call between them, so the cached
\* z1, a1, a2 it reads are the activations of its own batch under the
\* current parameters.
C6_BackwardAfterForward ==
    [][n_backward' # n_backward =>
          /\ forward_x = X_shuffled
          /\ LET act == Activations(model, X_shuffled)
             IN  /\ model.z1 = act.z1
                 /\ model.a1 = act.a1
                 /\ model.a2 = act.a2]_vars

\* The backward call of the epoch after the 10th, whose evaluation forward
\* overwrote the cache, on a batch in the shuffled order.
C6_Witness ==
    /\ pc = "progress"
    /\ n_backward = ProgressEvery + 1
    /\ indices = <<1, 0>>
    /\ X_train[1] # X_train[2]

C7_Counts ==
    /\ pc \in {"start", "generate", "generated", "init_model"} =>
          n_backward = 0 /\ file = <<>>
    /\ pc \in {"loop", "forward", "metrics", "backward"} =>
          n_backward = epoch /\ file = <<>>
    /\ pc \in {"forward", "metrics", "backward", "progress"} => epoch < epochs
    /\ pc = "progress" => n_backward = epoch + 1 /\ file = <<>>
    /\ pc = "loop" => epoch <= epochs
    /\ pc = "export" => n_backward = epochs /\ epoch = epochs /\ file = <<>>
    /\ pc \in {"samples", "done"} =>
          /\ n_backward = epochs /\ epoch = epochs
          /\ Len(file) = 1
          /\ file[1].weights =
                [W1 |-> model.W1, b1 |-> model.b1, W2 |-> model.W2, b2 |-> model.b2]

\* Steps train() still has to make, at most.
C7_Rank ==
    LET after == 8 + 5 * (epochs - epoch)
    IN  CASE pc = "done" -> 0
          [] pc = "samples" -> 1 + (SamplePredictions - i)
          [] pc = "export" -> 7
          [] pc = "loop" -> after
          [] pc = "progress" -> after - 4
          [] pc = "backward" -> after - 3
          [] pc = "metrics" -> after - 2
          [] pc = "forward" -> after - 1
          [] pc = "init_model" -> 9 + 5 * epochs
          [] pc = "generated" -> 10 + 5 * epochs
          [] pc = "generate" -> 11 + 5 * epochs + (n_samples - Len(X))
          [] pc = "start" -> 12 + 5 * MaxEpochs + MaxSamples

\* C7: train runs exactly `epochs` epochs in sequence with one backward
\* update in each, then ends (every step brings the end nearer); it exports
\* once, after the last update, so the file holds the parameters reached
\* after exactly `epochs` updates.
C7_ExactEpochs ==
    /\ []C7_Counts
    /\ [][C7_Rank' < C7_Rank /\ C7_Rank' >= 0]_vars

\* train(epochs = MaxEpochs) has returned.
C7_Witness ==
    /\ pc = "done"
    /\ epochs = MaxEpochs
    /\ n_backward = MaxEpochs
    /\ Len(file) = 1
    /\ file[1].weights.W1 # NewModel(1).W1

\* C8: in train only backward changes W1, b1, W2, b2: no forward call (on the
\* training batch, in the periodic or the final evaluation, in the sample
\* predictions), no compute_loss, accuracy or export_weights call does.
C8_OnlyBackwardWrites ==
    [][(pc # "init_model" /\ Params(model') # Params(model)) =>
          (pc = "backward" /\ n_backward' = n_backward + 1)]_vars

\* train() has returned after a periodic evaluation, with finite parameters
\* that its backward calls have changed.
C8_Witness ==
    /\ pc = "done"
    /\ n_backward >= ProgressEvery
    /\ model.W1[1][1] # NaN
    /\ model.W1 # NewModel(1).W1

\* C9: in every epoch X_shuffled and y_shuffled are X_train and y_train under
\* one permutation, indices, of the training subset's positions: row k of
\* both is training sample indices[k], and every training sample occurs once.
C9_JointShuffle ==
    ShuffleDone =>
        /\ Len(indices) = Len(X_train)
        /\ Len(X_shuffled) = Len(X_train) /\ Len(y_shuffled) = Len(y_train)
        /\ \A j \in 0..(Len(X_train) - 1) :
              Cardinality({k \in 1..Len(indices) : indices[k] = j}) = 1
        /\ \A k \in 1..Len(indices) :
              /\ X_shuffled[k] = X_train[indices[k] + 1]
              /\ y_shuffled[k] = y_train[indices[k] + 1]

\* A batch in the shuffled order whose two samples differ in features and
\* label.
C9_Witness ==
    /\ pc = "backward"
    /\ indices = <<1, 0>>
    /\ X_train[1] # X_train[2]
    /\ y_train[1] # y_train[2]
    /\ y_shuffled[1] = y_train[2]

\* C10: for every positive sample_count both subsets of the split are
\* non-empty, so the batch size backward divides by is at least 1.
C10_SubsetsNonEmpty ==
    AfterSplit =>
        /\ Len(X_train) >= 1
        /\ Len(X_test) >= 1
        /\ pc = "backward" => Len(X_shuffled) >= 1

====
